---- MODULE Spec2Model ----
(***************************************************************************)
(* TradeIdeasInsight: the signal-detection and scoring engine.             *)
(*                                                                         *)
(*   SpecScore  Russell1000Analyzer._calculate_inclusion_score             *)
(*              (src/utils/sp400_analyzer.py) applied to one snapshot.     *)
(*   SpecCross  CrossAnalyzer._check_cross (src/utils/cross_analyzer.py)   *)
(*              applied to one provider response.                          *)
(*   SpecBatch  CrossAnalyzer.analyze_stocks, the per-symbol loop.         *)
(*   SpecRsi    CrossAnalyzer._calculate_rsi applied to one series.        *)
(*   SpecRebase, SpecPerf                                                  *)
(*              StockAnalyzer._rebase_prices and get_performance_data      *)
(*              (src/utils/stock_analysis.py).                             *)
(*   SpecCandidates, SpecOutputs                                           *)
(*              Russell1000Analyzer.get_sp500_candidates, and the two      *)
(*              batch functions side by side.                              *)
(*   SpecRescore, SpecSoft                                                 *)
(*              the scorer called a second time, on the same snapshot      *)
(*              and on one with other soft fields.                         *)
(*   SpecAbandon, SpecStall                                                *)
(*              analyze_stocks with a caller that abandons the batch,      *)
(*              and with a provider that can stall.                        *)
(*                                                                         *)
(* Arithmetic is exact.  Points are carried in hundredths of a point,      *)
(* money in units of 10^7 dollars, moving averages in 1/200 of a price     *)
(* unit; the inputs are chosen so that every division the code performs    *)
(* is exact in these units.  Binary floating-point rounding is not         *)
(* modelled.                                                               *)
(***************************************************************************)
EXTENDS Integers, Sequences, FiniteSets, TLC

VARIABLES
    pc,          \* position of the modelled call
    metrics,     \* the dict handed to _calculate_inclusion_score
    result,      \* what the modelled call returned
    end_date,    \* datetime.now() of the scan, in half days
    ticker,      \* what the price provider answers in _check_cross
    market,      \* what the price provider answers for each symbol
    symbols,     \* the list handed to analyze_stocks
    idx,         \* number of symbols the loop of analyze_stocks has done
    results,     \* the list `results` of analyze_stocks
    hist,        \* the frame `hist` _check_cross has built
    announcement_date,  \* the announcement date of get_performance_data
    start_date,  \* the first date of the period of get_performance_data
    stock_data,  \* the frame `stock_data` handed to _rebase_prices
    rebased_data,  \* the frame `rebased_data` of get_performance_data
    prices       \* the series handed to _calculate_rsi

vars == <<pc, metrics, result, end_date, ticker, market, symbols, idx,
          results, hist, announcement_date, start_date, stock_data,
          rebased_data, prices>>

\* Python's None
None == [none |-> TRUE]

Min(a, b) == IF a <= b THEN a ELSE b
Max(a, b) == IF a >= b THEN a ELSE b

(***************************************************************************)
(* Russell1000Analyzer                                                     *)
(***************************************************************************)

\* self.sp500_criteria: 22.7e9 dollars, in units of 10^7 dollars
min_market_cap == 2270
\* percent of the shares outstanding
min_float_percentage == 50
\* shares per month
min_monthly_volume == 250000

\* dict.get(key, default)
Get(m, k, default) == IF k \in DOMAIN m THEN m[k] ELSE default

\* one point of score, in hundredths
Points(p) == p * 100

\* Put that keeps nothing but the new entry
Put_Alone(d, k, v) == [x \in {k} |-> v]

\* d with d[k] = v
Put(d, k, v) == [x \in DOMAIN d \cup {k} |-> IF x = k THEN v ELSE d[x]]

\* US Domicile Check (hard requirement)
DomicileOk(m) == Get(m, "country", "") = "United States"

\* cap_score without the cap of 30 points
cap_score_NoCap(m) ==
    LET market_cap == Get(m, "market_cap", 0)
    IN  IF market_cap >= min_market_cap
        THEN Points(20) + (market_cap - min_market_cap)
        ELSE 0

\* Market Cap Score (30 points max); (market_cap - min)/1e9 points is
\* (market_cap - min) hundredths when the cap is in units of 10^7
cap_score(m) ==
    LET market_cap == Get(m, "market_cap", 0)
    IN  IF market_cap >= min_market_cap
        THEN Min(Points(30), Points(20) + (market_cap - min_market_cap))
        ELSE 0

CapOk(m) == Get(m, "market_cap", 0) >= min_market_cap

\* monthly_volume with the 21 trading days of the source's comment
monthly_volume_21Days(m) == Get(m, "avg_volume", 0) * 21

\* monthly volume: daily average * 20
monthly_volume(m) == Get(m, "avg_volume", 0) * 20

\* liquidity_score without the clamp at 0
liquidity_score_NoClamp(m) ==
    IF monthly_volume(m) >= min_monthly_volume
    THEN Points(10)
    ELSE (monthly_volume(m) * Points(10)) \div min_monthly_volume

\* LiquidityOk that compares the daily average with the monthly minimum
LiquidityOk_Daily(m) == Get(m, "avg_volume", 0) >= min_monthly_volume

\* Liquidity Score (10 points max)
liquidity_score(m) ==
    IF monthly_volume(m) >= min_monthly_volume
    THEN Points(10)
    ELSE Max(0, (monthly_volume(m) * Points(10)) \div min_monthly_volume)

LiquidityOk(m) == monthly_volume(m) >= min_monthly_volume

\* the condition under which float_shares / shares_outstanding is evaluated
FloatDivides(m) == Get(m, "shares_outstanding", 0) > 0

\* public_float_pct, in hundredths of a percent
public_float_pct(m) ==
    LET shares_outstanding == Get(m, "shares_outstanding", 0)
        float_shares == Get(m, "float_shares", 0)
    IN  IF FloatDivides(m)
        THEN (float_shares * 100 * 100) \div shares_outstanding
        ELSE 0

\* the call divides by zero (Python raises ZeroDivisionError)
ZeroDivision(m) == FloatDivides(m) /\ Get(m, "shares_outstanding", 0) = 0

\* FloatOk with a strict comparison
FloatOk_Strict(m) == public_float_pct(m) > min_float_percentage * 100

FloatOk(m) == public_float_pct(m) >= min_float_percentage * 100

\* Float Score (20 points max)
float_score(m) == IF FloatOk(m) THEN Points(20) ELSE 0

\* HasProfitability that is content with one of the two
HasProfitability_Either(m) ==
    Get(m, "profit_margin", 0) > 0 \/ Get(m, "roe", 0) > 0

\* Profitability Score (10 points max); margins in percent
HasProfitability(m) ==
    Get(m, "profit_margin", 0) > 0 /\ Get(m, "roe", 0) > 0

profitability_score(m) ==
    Min(Points(10),
        ((Get(m, "profit_margin", 0) + Get(m, "roe", 0)) * Points(1)) \div 2)

\* growth_score without the cap of 10 points
growth_score_NoCap(m) ==
    (Max(Get(m, "revenue_growth", 0), Get(m, "earnings_growth", 0))
        * Points(1)) \div 2

\* Growth Score (10 points max); growth in percent
HasGrowth(m) ==
    Get(m, "revenue_growth", 0) > 0 \/ Get(m, "earnings_growth", 0) > 0

growth_score(m) ==
    Min(Points(10),
        (Max(Get(m, "revenue_growth", 0), Get(m, "earnings_growth", 0))
            * Points(1)) \div 2)

\* Lower debt is better: max(0, 5 - debt_to_equity / 10), 5 when not positive
debt_score(m) ==
    LET debt_to_equity == Get(m, "debt_to_equity", 100)
    IN  IF debt_to_equity > 0
        THEN Max(0, Points(5) - (debt_to_equity * Points(1)) \div 10)
        ELSE Points(5)

\* Positive free cash flow is good
fcf_score(m) == IF Get(m, "free_cash_flow", 0) > 0 THEN Points(5) ELSE 0

\* Financial Health Score (10 points max)
health_score(m) == debt_score(m) + fcf_score(m)

\* score_breakdown as the function leaves it: profitability and growth are
\* entered only when their condition holds
score_breakdown(m) ==
    LET b0 == [k \in {"market_cap", "liquidity", "float", "financial_health"} |->
                 CASE k = "market_cap" -> cap_score(m)
                   [] k = "liquidity" -> liquidity_score(m)
                   [] k = "float" -> float_score(m)
                   [] OTHER -> health_score(m)]
        b1 == IF HasProfitability(m)
              THEN Put(b0, "profitability", profitability_score(m)) ELSE b0
    IN  IF HasGrowth(m) THEN Put(b1, "growth", growth_score(m)) ELSE b1

\* RunningScore that leaves out the financial health score
RunningScore_NoHealth(m) ==
    cap_score(m) + liquidity_score(m) + float_score(m)
    + (IF HasProfitability(m) THEN profitability_score(m) ELSE 0)
    + (IF HasGrowth(m) THEN growth_score(m) ELSE 0)

\* the running total `score` at the return statement
RunningScore(m) ==
    cap_score(m) + liquidity_score(m) + float_score(m)
    + (IF HasProfitability(m) THEN profitability_score(m) ELSE 0)
    + (IF HasGrowth(m) THEN growth_score(m) ELSE 0)
    + health_score(m)

\* criteria_met without the domicile check
criteria_met_NoDomicile(m) == CapOk(m) /\ LiquidityOk(m) /\ FloatOk(m)

\* criteria_met at the return statement
criteria_met(m) == DomicileOk(m) /\ CapOk(m) /\ LiquidityOk(m) /\ FloatOk(m)

\* return min(100, score), criteria_met
calculate_inclusion_score(m) ==
    [score |-> Min(Points(100), RunningScore(m)),
     criteria_met |-> criteria_met(m)]

(***************************************************************************)
(* Snapshots handed to the scorer.  Each field is given as a set: empty    *)
(* for a key the dict lacks, a singleton for its value.                    *)
(***************************************************************************)
CountryValues == {{"United States"}, {"Canada"}, {}}
MarketCapValues == {{}, {-100}, {2269}, {2270}, {2600}, {5000}}
AvgVolumeValues == {{-2500}, {6250}, {12475}, {12500}}
FloatSharesValues == {{-60}, {49}, {50}}
SharesOutstandingValues == {{-100}, {0}, {100}}
ProfitMarginValues == {{-5}, {6}, {30}}
RoeValues == {{0}, {6}}
RevenueGrowthValues == {{-5}, {30}}
EarningsGrowthValues == {{0}, {6}}
DebtToEquityValues == {{}, {-20}, {0}, {25}, {80}}
FreeCashFlowValues == {{-1}, {0}, {1}}

RawSnapshots ==
    [country : CountryValues, market_cap : MarketCapValues,
     avg_volume : AvgVolumeValues, float_shares : FloatSharesValues,
     shares_outstanding : SharesOutstandingValues,
     profit_margin : ProfitMarginValues, roe : RoeValues,
     revenue_growth : RevenueGrowthValues,
     earnings_growth : EarningsGrowthValues,
     debt_to_equity : DebtToEquityValues, free_cash_flow : FreeCashFlowValues]

Snapshot(raw) ==
    [k \in {x \in DOMAIN raw : raw[x] # {}} |-> CHOOSE v \in raw[k] : TRUE]

InitScore ==
    /\ pc = "score_call"
    /\ \E raw \in RawSnapshots : metrics = Snapshot(raw)
    /\ result = None
    /\ end_date = 0
    /\ ticker = None
    /\ market = None
    /\ symbols = <<>>
    /\ idx = 0
    /\ results = <<>>
    /\ hist = <<>>
    /\ announcement_date = 0
    /\ start_date = 0
    /\ stock_data = <<>>
    /\ rebased_data = <<>>
    /\ prices = <<>>

\* score, criteria_met = self._calculate_inclusion_score(financial_metrics)
CalculateInclusionScore ==
    /\ pc = "score_call"
    /\ IF ZeroDivision(metrics)
       THEN /\ pc' = "score_raised"
            /\ UNCHANGED <<result, metrics>>
       ELSE /\ pc' = "score_done"
            /\ result' = calculate_inclusion_score(metrics)
            /\ metrics' = Put(metrics, "score_breakdown", score_breakdown(metrics))
    /\ UNCHANGED <<end_date, ticker, market, symbols, idx, results, hist,
                   announcement_date, start_date, stock_data,
                   rebased_data, prices>>

NextScore == CalculateInclusionScore

SpecScore == InitScore /\ [][NextScore]_vars

(***************************************************************************)
(* The scorer called twice on the same dict: the second call is handed     *)
(* the dict as the first call left it.                                     *)
(***************************************************************************)
\* a second self._calculate_inclusion_score(financial_metrics)
CalculateInclusionScoreAgain ==
    /\ pc = "score_done"
    /\ pc' = "score_again"
    /\ result' = calculate_inclusion_score(metrics)
    /\ metrics' = Put(metrics, "score_breakdown", score_breakdown(metrics))
    /\ UNCHANGED <<end_date, ticker, market, symbols, idx, results, hist,
                   announcement_date, start_date, stock_data,
                   rebased_data, prices>>

SpecRescore ==
    InitScore
    /\ [][CalculateInclusionScore \/ CalculateInclusionScoreAgain]_vars

(***************************************************************************)
(* The scorer called on two snapshots, one after the other: the second     *)
(* has the share, volume and market-cap fields of the first, any country   *)
(* and any soft fields.                                                    *)
(***************************************************************************)
HardKeys ==
    {"country", "market_cap", "avg_volume", "float_shares",
     "shares_outstanding"}

\* the country and the soft fields of a second snapshot
VariantFields ==
    [country : CountryValues, profit_margin : ProfitMarginValues,
     roe : RoeValues, revenue_growth : RevenueGrowthValues,
     earnings_growth : EarningsGrowthValues,
     debt_to_equity : DebtToEquityValues, free_cash_flow : FreeCashFlowValues]

\* the snapshot with the given fields and the other hard fields of m
Variant(m, fields) ==
    LET kept == (DOMAIN m \cap HardKeys) \ {"country"}
        given == Snapshot(fields)
    IN  [k \in kept \cup DOMAIN given |->
            IF k \in kept THEN m[k] ELSE given[k]]

\* the first snapshots: no soft field earns a point, or every one does
InitSoft ==
    /\ InitScore
    /\ "debt_to_equity" \in DOMAIN metrics
    /\ \/ /\ metrics["profit_margin"] = -5 /\ metrics["roe"] = 0
          /\ metrics["revenue_growth"] = -5
          /\ metrics["earnings_growth"] = 0
          /\ metrics["debt_to_equity"] = 80
          /\ metrics["free_cash_flow"] = -1
       \/ /\ metrics["profit_margin"] = 30 /\ metrics["roe"] = 6
          /\ metrics["revenue_growth"] = 30
          /\ metrics["earnings_growth"] = 6
          /\ metrics["debt_to_equity"] = 0
          /\ metrics["free_cash_flow"] = 1

\* score, criteria_met = self._calculate_inclusion_score(financial_metrics)
\* for the metrics of another symbol
ScoreVariant ==
    /\ pc = "score_done"
    /\ \E fields \in VariantFields :
          LET m == Variant(metrics, fields)
          IN  /\ ~ZeroDivision(m)
              /\ result' = calculate_inclusion_score(m)
              /\ metrics' = Put(m, "score_breakdown", score_breakdown(m))
    /\ pc' = "variant_done"
    /\ UNCHANGED <<end_date, ticker, market, symbols, idx, results, hist,
                   announcement_date, start_date, stock_data,
                   rebased_data, prices>>

SpecSoft == InitSoft /\ [][CalculateInclusionScore \/ ScoreVariant]_vars

(***************************************************************************)
(* CrossAnalyzer                                                           *)
(*                                                                         *)
(* Time is counted in half days: the index of a price row is the midnight  *)
(* of its date, datetime.now() falls on a midnight or on a midday.  Day    *)
(* numbers d with d % 7 in 0..4 are the trading days (Monday..Friday).     *)
(***************************************************************************)

\* self.short_ma, self.long_ma
short_ma == 50
long_ma == 200

\* timedelta(days = n)
timedelta(n) == 2 * n

\* the timestamp of a row dated `day`
Midnight(day) == 2 * day

\* the date of a timestamp
DateOf(ts) == ts \div 2

\* the last trading day not after `day`
LastTradingDay(day) ==
    IF (day % 7) <= 4 THEN day ELSE day - ((day % 7) - 4)

\* the trading day k sessions before trading day `day`
SessionsBefore(day, k) ==
    LET ord == (5 * (day \div 7)) + (day % 7) - k
    IN  (7 * (ord \div 5)) + (ord % 5)

\* the closing price the series stands at before its last sessions
BasePrice == 100

\* ticker.history(start, end)['Close']: one close per row, oldest first;
\* BasePrice except on the last Len(tk.tail) sessions, which deviate from it
\* by tk.tail
Closes(tk) ==
    LET flat == tk.n - Len(tk.tail)
    IN  [i \in 1..tk.n |->
            IF i <= flat THEN BasePrice ELSE BasePrice + tk.tail[i - flat]]

\* the index of ticker.history(start, end): one row per trading day, the
\* last one dated tk.last
DateAt(tk, i) == SessionsBefore(tk.last, tk.n - i)

\* the sum of close[a..b]
RECURSIVE SumClose(_, _, _)
SumClose(close, a, b) ==
    IF a > b THEN 0
    ELSE IF a = b THEN close[a]
    ELSE LET mid == (a + b) \div 2
         IN  SumClose(close, a, mid) + SumClose(close, mid + 1, b)

\* HasMean that asks for one row more than the window
HasMean_Late(i, window) == i >= window + 1

\* rolling(window).mean() has a value at row i (NaN before)
HasMean(i, window) == i >= window

\* rolling(window).sum() at rows from..to (from >= window): the window's
\* total at the first row, then for each row the total before it plus the
\* close that enters the window minus the close that leaves it
RECURSIVE RollingSum(_, _, _, _)
RollingSum(close, from, to, window) ==
    IF to < from THEN <<>>
    ELSE IF to = from THEN <<SumClose(close, from - window + 1, from)>>
    ELSE LET before == RollingSum(close, from, to - 1, window)
         IN  Append(before,
                    before[Len(before)] + close[to] - close[to - window])

\* a mean of `window` closes, in 1/long_ma of a price unit (exact for both
\* windows)
Mean(total, window) == (total * long_ma) \div window

\* Signal with >= for >
Signal_OrEqual(ma50, ma200) == IF ma50 >= ma200 THEN 1 ELSE -1

\* np.where(hist['MA50'] > hist['MA200'], 1, -1)
Signal(ma50, ma200) == IF ma50 > ma200 THEN 1 ELSE -1

\* the frame `hist` once _check_cross has added MA50 and MA200, dropped the
\* rows on which either is NaN and added Signal; empty when the function
\* returns before (no answer, or fewer than long_ma rows)
Frame(tk) ==
    IF tk.status = "raise" \/ tk.n = 0 \/ tk.n < long_ma THEN <<>>
    ELSE
    LET close == Closes(tk)
        first == CHOOSE i \in 1..tk.n :
                    /\ HasMean(i, short_ma) /\ HasMean(i, long_ma)
                    /\ \A j \in 1..(i - 1) :
                          ~(HasMean(j, short_ma) /\ HasMean(j, long_ma))
        sum50 == RollingSum(close, first, tk.n, short_ma)
        sum200 == RollingSum(close, first, tk.n, long_ma)
    IN  [k \in 1..(tk.n - first + 1) |->
            [Date |-> DateAt(tk, first + k - 1),
             Close |-> close[first + k - 1],
             MA50 |-> Mean(sum50[k], short_ma),
             MA200 |-> Mean(sum200[k], long_ma),
             Signal |-> Signal(Mean(sum50[k], short_ma),
                               Mean(sum200[k], long_ma))]]

\* hist['Signal'].diff() has a value at row k (NaN on the first row)
HasDiff(frame, k) == k > 1

\* hist['Cross'] at row k
Cross(frame, k) == frame[k].Signal - frame[k - 1].Signal

\* recent_data without the window
recent_data_All(frame, now) == DOMAIN frame

\* hist[hist.index >= one_week_ago]
recent_data(frame, now) ==
    {k \in DOMAIN frame : Midnight(frame[k].Date) >= now - timedelta(7)}

\* recent_data[recent_data['Cross'] == step]
CrossRows(frame, now, step) ==
    {k \in recent_data(frame, now) : HasDiff(frame, k) /\ Cross(frame, k) = step}

\* index[-1] of a selection of rows
LastRow(rows) == CHOOSE k \in rows : \A j \in rows : j <= k

(***************************************************************************)
(* CrossAnalyzer._calculate_rsi.  A float that is not NaN is carried as    *)
(* the exact fraction num/den (den > 0); a division by zero gives what     *)
(* IEEE arithmetic gives: NaN for 0/0, an infinite ratio otherwise.        *)
(***************************************************************************)

\* the default of the parameter `period`
period == 14

\* float('nan')
NaN == [nan |-> TRUE]

\* prices.diff(): NaN on the first row
delta(series) ==
    [i \in DOMAIN series |->
        IF HasDiff(series, i) THEN series[i] - series[i - 1] ELSE NaN]

\* gain that keeps the falls instead of the rises
gain_OfFalls(series) ==
    [i \in DOMAIN series |->
        IF HasDiff(series, i) /\ delta(series)[i] < 0
        THEN 0 - delta(series)[i] ELSE 0]

\* delta.where(delta > 0, 0): the comparison is false on NaN, so the first
\* row holds 0
gain(series) ==
    [i \in DOMAIN series |->
        IF HasDiff(series, i) /\ delta(series)[i] > 0
        THEN delta(series)[i] ELSE 0]

\* -delta.where(delta < 0, 0)
loss(series) ==
    [i \in DOMAIN series |->
        IF HasDiff(series, i) /\ delta(series)[i] < 0
        THEN 0 - delta(series)[i] ELSE 0]

\* rolling(window).mean() on the last row: NaN when the column has fewer
\* than `window` rows
LastRollingMean(column, window) ==
    IF ~HasMean(Len(column), window) THEN NaN
    ELSE [num |-> SumClose(column, Len(column) - window + 1, Len(column)),
          den |-> window]

\* rsi.iloc[-1] for rs = gain / loss and rsi = 100 - (100 / (1 + rs)), from
\* the last rows of gain and loss; neither is negative
LastRsi(last_gain, last_loss) ==
    IF last_gain = NaN \/ last_loss = NaN THEN NaN
    ELSE IF last_loss.num = 0
    THEN IF last_gain.num = 0 THEN NaN ELSE [num |-> 100, den |-> 1]
    ELSE LET rs == [num |-> last_gain.num * last_loss.den,
                    den |-> last_gain.den * last_loss.num]
         IN  [num |-> 100 * (rs.den + rs.num) - 100 * rs.den,
              den |-> rs.den + rs.num]

\* what _calculate_rsi(prices) returns
calculate_rsi(series) ==
    IF series = <<>> THEN None
    ELSE LastRsi(LastRollingMean(gain(series), period),
                 LastRollingMean(loss(series), period))

(***************************************************************************)
(* CrossAnalyzer._check_cross, the event                                   *)
(***************************************************************************)
\* round(num/den, 2), in hundredths, for num >= 0: the nearest hundredth, a
\* tie of the decimal value going to the even neighbour (which way the
\* binary float tips such a tie is not modelled)
RoundHundredths(num, den) ==
    LET q == (num * 100) \div den
        r == (num * 100) % den
    IN  IF 2 * r < den THEN q
        ELSE IF 2 * r > den THEN q + 1
        ELSE IF q % 2 = 0 THEN q ELSE q + 1

\* round(rsi, 2) if rsi else None, as a fraction of denominator 100: None
\* and 0.0 are falsy, NaN is truthy and round(nan, 2) is nan
RsiField(rsi) ==
    IF rsi = None THEN None
    ELSE IF rsi = NaN THEN NaN
    ELSE IF rsi.num = 0 THEN None
    ELSE [num |-> RoundHundredths(rsi.num, rsi.den), den |-> 100]

\* hist['Close']
CloseOf(frame) == [k \in DOMAIN frame |-> frame[k].Close]

\* CrossEvent that reads price and averages on the date of the cross
CrossEvent_AtCross(symbol, cross_type, frame, cross_row) ==
    [Symbol |-> symbol,
     Cross_Type |-> cross_type,
     Cross_Date |-> frame[cross_row].Date,
     Current_Price |-> frame[cross_row].Close,
     MA50 |-> RoundHundredths(frame[cross_row].MA50, long_ma),
     MA200 |-> RoundHundredths(frame[cross_row].MA200, long_ma),
     RSI |-> RsiField(calculate_rsi(SubSeq(CloseOf(frame), 1, cross_row)))]

\* the dict _check_cross returns for a detected cross.  Cross_Date is the
\* date of the row (strftime('%Y-%m-%d') keeps the date and its order);
\* Current_Price is the latest close (prices here have no more than two
\* decimals, so round(..., 2) leaves them as they are); MA50 and MA200 are
\* in hundredths
CrossEvent(symbol, cross_type, frame, cross_row) ==
    [Symbol |-> symbol,
     Cross_Type |-> cross_type,
     Cross_Date |-> frame[cross_row].Date,
     Current_Price |-> frame[Len(frame)].Close,
     MA50 |-> RoundHundredths(frame[Len(frame)].MA50, long_ma),
     MA200 |-> RoundHundredths(frame[Len(frame)].MA200, long_ma),
     RSI |-> RsiField(calculate_rsi(CloseOf(frame)))]

\* EnoughRows without the check
EnoughRows_Any(frame) == TRUE

\* the frame passes `if len(hist) < 10: return None`
EnoughRows(frame) == ~(Len(frame) < 10)

\* CrossChoice that looks at the death cross first
CrossChoice_DeathFirst(golden_cross, death_cross) ==
    IF death_cross # {}
    THEN [type |-> "Death Cross", row |-> LastRow(death_cross)]
    ELSE IF golden_cross # {}
    THEN [type |-> "Golden Cross", row |-> LastRow(golden_cross)]
    ELSE [type |-> "None", row |-> 0]

\* CrossChoice that reports the later of the two crosses
CrossChoice_Latest(golden_cross, death_cross) ==
    IF golden_cross # {}
       /\ (death_cross = {} \/ LastRow(golden_cross) > LastRow(death_cross))
    THEN [type |-> "Golden Cross", row |-> LastRow(golden_cross)]
    ELSE IF death_cross # {}
    THEN [type |-> "Death Cross", row |-> LastRow(death_cross)]
    ELSE [type |-> "None", row |-> 0]

\* cross_type and cross_date (as a row): the golden cross is looked at first
CrossChoice(golden_cross, death_cross) ==
    IF golden_cross # {}
    THEN [type |-> "Golden Cross", row |-> LastRow(golden_cross)]
    ELSE IF death_cross # {}
    THEN [type |-> "Death Cross", row |-> LastRow(death_cross)]
    ELSE [type |-> "None", row |-> 0]

\* what _check_cross returns, with `frame` the frame it has built.  An
\* exception anywhere in the function (the provider's history call, the
\* ticker.info lookup or the formatting of its fields) ends it with None
Detect(symbol, tk, frame, now) ==
    IF tk.status = "raise" THEN None
    ELSE IF tk.n = 0 \/ tk.n < long_ma THEN None
    ELSE IF ~EnoughRows(frame) THEN None
    ELSE IF recent_data(frame, now) = {} THEN None
    ELSE LET choice == CrossChoice(CrossRows(frame, now, 2),
                                   CrossRows(frame, now, -2))
         IN  IF choice.type = "None" THEN None
             ELSE IF tk.info = "raise" THEN None
             ELSE CrossEvent(symbol, choice.type, frame, choice.row)

\* _check_cross(symbol, start_date, end_date), with tk what the provider
\* answers for the symbol
check_cross(symbol, tk, now) == Detect(symbol, tk, Frame(tk), now)

(***************************************************************************)
(* What the provider can answer.                                           *)
(***************************************************************************)
\* number of closing sessions whose price is free
MaxTail == 5
\* largest number of sessions the last row lags behind the scan
MaxLag == 2

\* the first day of the week in which the scan runs (a Monday)
ScanWeek == 700

\* the moments at which the scan can run
EndDates == {Midnight(ScanWeek + d) + h : d \in 0..6, h \in 0..1}

Deviations == {-1, 0, 1}

\* histories too short to be analysed, with the closing sessions they are
\* tried with: flat, a rise on the last session, a rise and a fall
\* histories tried with a few closing courses only: flat, a rise on the
\* last session, a rise and a fall
FewLengths == {0, 90, long_ma - 1, long_ma, long_ma + 8, long_ma + 10}
FewTails(n) == IF n = 0 THEN {<<>>} ELSE {<<>>, <<1>>, <<1, -2>>}

\* the shortest history that is analysed, with every course of the closing
\* sessions
FullLength == long_ma + 9
FullTails == [1..MaxTail -> Deviations]

TickersOf(now, n, tails) ==
    {[status |-> "ok", info |-> f, n |-> n, tail |-> t,
      last |-> SessionsBefore(LastTradingDay(DateOf(now)), lag)] :
        f \in {"ok", "raise"}, t \in tails, lag \in 0..MaxLag}

\* a history that leaves period + 1 rows after dropna, with the courses it
\* is tried with over these rows: a fall on each of the last 14 sessions
\* that takes MA50 below MA200 on the last session but one, the same with
\* a rise on the last session, and a rise on each of the last 14 sessions
\* that takes MA50 above MA200 on the last session but one
LongLength == long_ma + period
LongTails ==
    {<<10, 9, 8, 7, 6, 5, 4, 3, 2, 1, -10, -20, -24, -25, -26>>,
     <<10, 9, 8, 7, 6, 5, 4, 3, 2, 1, -10, -20, -24, -25, -24>>,
     <<-10, -9, -8, -7, -6, -5, -4, -3, -2, -1, 10, 20, 24, 25, 26>>}

\* the answers for a scan at `now`
Tickers(now) ==
    {[status |-> "raise", info |-> "ok", n |-> 0, tail |-> <<>>, last |-> 0]}
    \cup UNION {TickersOf(now, n, FewTails(n)) : n \in FewLengths}
    \cup TickersOf(now, FullLength, FullTails)
    \cup TickersOf(now, LongLength, LongTails)

InitCross ==
    /\ pc = "check_call"
    /\ end_date \in EndDates
    /\ ticker \in Tickers(end_date)
    /\ result = None
    /\ metrics = None
    /\ market = None
    /\ symbols = <<>>
    /\ idx = 0
    /\ results = <<>>
    /\ hist = <<>>
    /\ announcement_date = 0
    /\ start_date = 0
    /\ stock_data = <<>>
    /\ rebased_data = <<>>
    /\ prices = <<>>

\* cross_data = self._check_cross(symbol, start_date, end_date)
CheckCrossCall ==
    /\ pc = "check_call"
    /\ pc' = "check_done"
    /\ hist' = Frame(ticker)
    /\ result' = Detect("AAA", ticker, hist', end_date)
    /\ UNCHANGED <<metrics, end_date, ticker, market, symbols, idx, results,
                   announcement_date, start_date, stock_data,
                   rebased_data, prices>>

NextCross == CheckCrossCall

SpecCross == InitCross /\ [][NextCross]_vars

(***************************************************************************)
(* The series handed to _calculate_rsi: up to MaxPrices prices that start  *)
(* at BasePrice, move by one step up to a turn and by another after it,    *)
(* and may end on a step of their own.                                     *)
(***************************************************************************)
\* most prices of a series
MaxPrices == 17

Steps == {-2, -1, 0, 1, 3}

\* the price after the given steps
RECURSIVE Walk(_, _)
Walk(from, steps) ==
    IF steps = <<>> THEN <<from>>
    ELSE LET before == Walk(from, SubSeq(steps, 1, Len(steps) - 1))
         IN  Append(before, before[Len(before)] + steps[Len(steps)])

PriceWalks ==
    {<<>>} \cup
    {Walk(BasePrice,
          [k \in 1..(n - 1) |->
              IF k = n - 1 /\ final # {} THEN CHOOSE s \in final : TRUE
              ELSE IF k <= turn THEN early ELSE late]) :
        n \in 1..MaxPrices, turn \in {0, 1, 2, 3, 8}, early \in Steps,
        late \in Steps, final \in {{}, {-1}, {1}}}

InitRsi ==
    /\ pc = "rsi_call"
    /\ prices \in PriceWalks
    /\ result = None
    /\ metrics = None
    /\ end_date = 0
    /\ ticker = None
    /\ market = None
    /\ symbols = <<>>
    /\ idx = 0
    /\ results = <<>>
    /\ hist = <<>>
    /\ announcement_date = 0
    /\ start_date = 0
    /\ stock_data = <<>>
    /\ rebased_data = <<>>

\* rsi = self._calculate_rsi(hist['Close'])
CalculateRsiCall ==
    /\ pc = "rsi_call"
    /\ pc' = "rsi_done"
    /\ result' = calculate_rsi(prices)
    /\ UNCHANGED <<metrics, end_date, ticker, market, symbols, idx, results,
                   hist, announcement_date, start_date, stock_data,
                   rebased_data, prices>>

NextRsi == CalculateRsiCall

SpecRsi == InitRsi /\ [][NextRsi]_vars

(***************************************************************************)
(* CrossAnalyzer.analyze_stocks.  The Streamlit progress widgets are       *)
(* presentation and are taken not to fail.                                 *)
(***************************************************************************)
\* longest list of symbols handed to analyze_stocks
MaxSymbols == 2

SymbolNames == {"AAA", "BBB", "CCC"}

\* lists of distinct symbols (index constituents)
SymbolLists ==
    UNION {{l \in [1..n -> SymbolNames] :
              \A i, j \in 1..n : i # j => l[i] # l[j]} : n \in 0..MaxSymbols}

\* the moments of the batch runs: a Friday midday, a Tuesday midnight
BatchEndDates == {Midnight(ScanWeek + 4) + 1, Midnight(ScanWeek + 8)}

\* the closing courses the batch is tried with: flat, a rise that lasts two
\* or three sessions, a rise undone on the last of six sessions
BatchTails == {<<>>, <<1, 1>>, <<1, 1, 1>>, <<1, 0, 0, 0, 0, -2>>}

\* what the provider answers to a batch run at `now`
BatchTickers(now) ==
    {[status |-> "raise", info |-> "ok", n |-> 0, tail |-> <<>>, last |-> 0],
     [status |-> "ok", info |-> "ok", n |-> 0, tail |-> <<>>,
      last |-> LastTradingDay(DateOf(now))],
     [status |-> "ok", info |-> "ok", n |-> 90, tail |-> <<1, 1>>,
      last |-> LastTradingDay(DateOf(now))],
     [status |-> "ok", info |-> "raise", n |-> FullLength, tail |-> <<1, 1>>,
      last |-> LastTradingDay(DateOf(now))]}
    \cup
    {[status |-> "ok", info |-> "ok", n |-> FullLength, tail |-> t,
      last |-> LastTradingDay(DateOf(now))] : t \in BatchTails}

InitBatch ==
    /\ pc = "loop"
    /\ end_date \in BatchEndDates
    /\ market \in [SymbolNames -> BatchTickers(end_date)]
    /\ symbols \in SymbolLists
    /\ idx = 0
    /\ results = <<>>
    /\ result = None
    /\ ticker = None
    /\ metrics = None
    /\ hist = <<>>
    /\ announcement_date = 0
    /\ start_date = 0
    /\ stock_data = <<>>
    /\ rebased_data = <<>>
    /\ prices = <<>>

\* Collect that keeps the latest row only
Collect_Overwrite(rows, cross_data) ==
    IF cross_data # None THEN <<cross_data>> ELSE rows

\* if cross_data: results.append(cross_data)
Collect(rows, cross_data) ==
    IF cross_data # None THEN Append(rows, cross_data) ELSE rows

\* the provider's calls for the symbol come back (with an answer or an
\* exception)
Answers(tk) == tk.status # "stall"

\* one pass of `for idx, symbol in enumerate(symbols)`; it ends only when
\* the calls to the provider come back
AnalyzeSymbol ==
    /\ pc = "loop"
    /\ idx < Len(symbols)
    /\ Answers(market[symbols[idx + 1]])
    /\ LET symbol == symbols[idx + 1]
       IN  /\ ticker' = market[symbol]
           /\ hist' = Frame(ticker')
           /\ results' = Collect(results,
                                 Detect(symbol, ticker', hist', end_date))
    /\ idx' = idx + 1
    /\ UNCHANGED <<pc, metrics, result, end_date, market, symbols,
                   announcement_date, start_date, stock_data,
                   rebased_data, prices>>

\* the orders df.sort_values('Cross_Date', ascending=False) can leave the
\* rows in: Cross_Date never increases; rows of equal date in any order
SortValuesDescending(rows) ==
    {t \in [1..Len(rows) -> {rows[i] : i \in 1..Len(rows)}] :
        /\ \A i \in 1..Len(rows) :
              Cardinality({j \in 1..Len(rows) : t[j] = rows[i]})
                = Cardinality({j \in 1..Len(rows) : rows[j] = rows[i]})
        /\ \A i, j \in 1..Len(rows) :
              i < j => t[i].Cross_Date >= t[j].Cross_Date}

\* the end of analyze_stocks: the sorted table, or an empty one
ReturnTable ==
    /\ pc = "loop"
    /\ idx = Len(symbols)
    /\ pc' = "returned"
    /\ result' \in (IF results # <<>> THEN SortValuesDescending(results)
                    ELSE {<<>>})
    /\ UNCHANGED <<metrics, end_date, ticker, market, symbols, idx, results,
                   hist, announcement_date, start_date, stock_data,
                   rebased_data, prices>>

NextBatch == AnalyzeSymbol \/ ReturnTable

SpecBatch == InitBatch /\ [][NextBatch]_vars

(***************************************************************************)
(* analyze_stocks and its caller.  The caller can abandon the batch: the   *)
(* interruption (KeyboardInterrupt, or the exception by which Streamlit    *)
(* stops a script, raised inside the calls of lines 35-36) is not an       *)
(* Exception, so line 43 does not catch it and it leaves analyze_stocks    *)
(* without a return value.                                                 *)
(***************************************************************************)

\* the caller abandons the batch before the last symbol is processed
Abandon ==
    /\ pc = "loop"
    /\ idx < Len(symbols)
    /\ pc' = "abandoned"
    /\ UNCHANGED <<metrics, result, end_date, ticker, market, symbols, idx,
                   results, hist, announcement_date, start_date, stock_data,
                   rebased_data, prices>>

NextAbandon == NextBatch \/ Abandon

SpecAbandon == InitBatch /\ [][NextAbandon]_vars

(***************************************************************************)
(* analyze_stocks with a provider that can stall: a call that never        *)
(* returns.  The program is sequential and takes its next step whenever    *)
(* it has one.                                                             *)
(***************************************************************************)

\* what the provider does for a symbol: it never returns, it raises, it
\* answers a flat series, or one with a golden cross two sessions ago
StallTickers(now) ==
    {[status |-> "stall", info |-> "ok", n |-> 0, tail |-> <<>>, last |-> 0],
     [status |-> "raise", info |-> "ok", n |-> 0, tail |-> <<>>, last |-> 0]}
    \cup
    {[status |-> "ok", info |-> "ok", n |-> FullLength, tail |-> t,
      last |-> LastTradingDay(DateOf(now))] : t \in {<<>>, <<1, 1>>}}

InitStall ==
    /\ pc = "loop"
    /\ end_date \in BatchEndDates
    /\ market \in [SymbolNames -> StallTickers(end_date)]
    /\ symbols \in SymbolLists
    /\ idx = 0
    /\ results = <<>>
    /\ result = None
    /\ ticker = None
    /\ metrics = None
    /\ hist = <<>>
    /\ announcement_date = 0
    /\ start_date = 0
    /\ stock_data = <<>>
    /\ rebased_data = <<>>
    /\ prices = <<>>

\* the steps of AnalyzeSymbol, told by what they do to idx: under NextBatch
\* no other step changes idx, and AnalyzeSymbol can be taken whenever its
\* guard holds
PassEnds ==
    /\ pc = "loop"
    /\ idx < Len(symbols)
    /\ Answers(market[symbols[idx + 1]])
    /\ idx' = idx + 1

\* the steps of ReturnTable, told by what they do to pc
LoopEnds ==
    /\ pc = "loop"
    /\ idx = Len(symbols)
    /\ pc' = "returned"

SpecStall ==
    InitStall /\ [][NextBatch]_vars
    /\ WF_idx(PassEnds) /\ WF_pc(LoopEnds)

(***************************************************************************)
(* StockAnalyzer (src/utils/stock_analysis.py)                             *)
(*                                                                         *)
(* A frame is a sequence of rows, a row a record of its columns; the       *)
(* empty frame pd.DataFrame() is <<>>.  A price row is dated at the        *)
(* midnight of its trading day.  Rebased prices are carried in             *)
(* thousandths; the prices are chosen so that every quotient is exact.     *)
(***************************************************************************)

\* `if min_diff > 5`: the furthest a substitute anchor may lie, in days
max_anchor_diff == 5

\* timedelta(days=10) around the period asked of the provider
buffer_days == 10

\* abs(x)
Abs(x) == IF x < 0 THEN 0 - x ELSE x

\* Price / announcement_price, in thousandths
Quotient(price, announcement_price) == (price * 1000) \div announcement_price

\* frame[name] = column: the frame with the column added or replaced
SetColumn(frame, name, column) ==
    [i \in DOMAIN frame |-> Put(frame[i], name, column[i])]

\* stock_data['Date'].dt.date
Date_Only(frame) == [i \in DOMAIN frame |-> DateOf(frame[i].Date)]

\* abs((stock_data['Date_Only'] - announcement_date).apply(lambda x: x.days))
Days_Diff(frame, on) ==
    [i \in DOMAIN frame |-> Abs(DateOf(frame[i].Date) - on)]

\* stock_data[stock_data['Date_Only'] == announcement_date], as row numbers
announcement_data(frame, on) ==
    {i \in DOMAIN frame : DateOf(frame[i].Date) = on}

\* iloc[0] of a selection of rows
FirstRow(rows) == CHOOSE i \in rows : \A j \in rows : i <= j

\* idxmin with the last of the nearest rows
idxmin_Last(column) ==
    CHOOSE i \in DOMAIN column :
        /\ \A j \in DOMAIN column : column[i] <= column[j]
        /\ \A j \in DOMAIN column : j > i => column[j] > column[i]

\* Series.idxmin(): the first row that holds the smallest value
idxmin(column) ==
    CHOOSE i \in DOMAIN column :
        /\ \A j \in DOMAIN column : column[i] <= column[j]
        /\ \A j \in DOMAIN column : j < i => column[j] > column[i]

\* the anchor is found without the limit of max_anchor_diff days
WithinReach_Any(min_diff) == TRUE

\* the negation of `if min_diff > 5`
WithinReach(min_diff) == ~(min_diff > max_anchor_diff)

\* announcement_price and actual_announcement_date as _rebase_prices
\* settles them on a frame that is not empty: `row` is the row they are
\* read from, `found` is false when the function gives up
Anchor(frame, on) ==
    IF announcement_data(frame, on) # {}
    THEN [found |-> TRUE, exact |-> TRUE,
          row |-> FirstRow(announcement_data(frame, on)),
          price |-> frame[FirstRow(announcement_data(frame, on))].Price,
          date |-> on]
    ELSE LET min_diff_idx == idxmin(Days_Diff(frame, on))
             min_diff == Days_Diff(frame, on)[min_diff_idx]
         IN  IF WithinReach(min_diff)
             THEN [found |-> TRUE, exact |-> FALSE, row |-> min_diff_idx,
                   price |-> frame[min_diff_idx].Price,
                   date |-> DateOf(frame[min_diff_idx].Date)]
             ELSE [found |-> FALSE, exact |-> FALSE, row |-> 0,
                   price |-> 0, date |-> 0]

\* the negation of `if announcement_price <= 0`
ValidPrice(announcement_price) == ~(announcement_price <= 0)

\* Rebased_Price that leaves the prices as they are
Rebased_Price_AsIs(frame, announcement_price) ==
    [i \in DOMAIN frame |-> Quotient(frame[i].Price, 1)]

\* stock_data['Price'] / announcement_price
Rebased_Price(frame, announcement_price) ==
    [i \in DOMAIN frame |-> Quotient(frame[i].Price, announcement_price)]

\* Days_From_Announcement counted from the announcement date itself
Days_From_Announcement_Asked(frame, actual_announcement_date, on) ==
    [i \in DOMAIN frame |-> DateOf(frame[i].Date) - on]

\* (stock_data['Date_Only'] - actual_announcement_date).apply(lambda x: x.days)
Days_From_Announcement(frame, actual_announcement_date, on) ==
    [i \in DOMAIN frame |-> DateOf(frame[i].Date) - actual_announcement_date]

\* stock_data as _rebase_prices leaves it: the columns it has added to the
\* caller's frame by the time it returns
Rebased(frame, on) ==
    IF frame = <<>> THEN frame
    ELSE
    LET anchor == Anchor(frame, on)
        dated == SetColumn(frame, "Date_Only", Date_Only(frame))
        diffed == IF anchor.exact THEN dated
                  ELSE SetColumn(dated, "Days_Diff", Days_Diff(frame, on))
    IN  IF ~anchor.found \/ ~ValidPrice(anchor.price) THEN diffed
        ELSE SetColumn(
                 SetColumn(diffed, "Rebased_Price",
                           Rebased_Price(frame, anchor.price)),
                 "Days_From_Announcement",
                 Days_From_Announcement(frame, anchor.date, on))

\* a row put into a frame sorted by Date, after the rows of the same Date
RECURSIVE InsertByDate(_, _)
InsertByDate(sorted, row) ==
    IF sorted = <<>> THEN <<row>>
    ELSE IF sorted[Len(sorted)].Date <= row.Date THEN Append(sorted, row)
    ELSE Append(InsertByDate(SubSeq(sorted, 1, Len(sorted) - 1), row),
                sorted[Len(sorted)])

\* result.sort_values('Date')
RECURSIVE SortValuesByDate(_)
SortValuesByDate(frame) ==
    IF frame = <<>> THEN <<>>
    ELSE InsertByDate(SortValuesByDate(SubSeq(frame, 1, Len(frame) - 1)),
                      frame[Len(frame)])

\* stock_data[['Date', 'Price', 'Rebased_Price', 'Days_From_Announcement']]
Columns(frame) ==
    [i \in DOMAIN frame |->
        [Date |-> frame[i].Date, Price |-> frame[i].Price,
         Rebased_Price |-> frame[i].Rebased_Price,
         Days_From_Announcement |-> frame[i].Days_From_Announcement]]

\* what _rebase_prices(stock_data, announcement_date) returns
rebase_prices(frame, on) ==
    IF frame = <<>> THEN <<>>
    ELSE LET anchor == Anchor(frame, on)
         IN  IF ~anchor.found THEN <<>>
             ELSE IF ~ValidPrice(anchor.price) THEN <<>>
             ELSE SortValuesByDate(Columns(Rebased(frame, on)))

(***************************************************************************)
(* The frames handed to _rebase_prices: one row for each of up to MaxRows  *)
(* trading days that lie within MaxSpan days of the announcement, oldest   *)
(* first, priced by a cycle of three prices.                               *)
(***************************************************************************)
\* most rows of a frame
MaxRows == 4
\* furthest a row lies from the announcement, in days
MaxSpan == 7

IsTradingDay(day) == (day % 7) <= 4

\* the announcement falls on a Wednesday, a Saturday or a Sunday
AnnouncementDates == {ScanWeek + 2, ScanWeek + 5, ScanWeek + 6}

\* the prices of three successive days; zero and negative prices included
PriceCycles ==
    {<<8, 10, 20>>, <<10, 10, 10>>, <<20, 8, 10>>, <<10, 0, 8>>,
     <<10, -10, 20>>, <<0, 10, -10>>, <<-10, 20, 0>>}

PriceOn(cycle, day) == cycle[(day % 3) + 1]

\* the days of a set, oldest first
RECURSIVE Ascending(_)
Ascending(days) ==
    IF days = {} THEN <<>>
    ELSE LET last == CHOOSE d \in days : \A e \in days : e <= d
         IN  Append(Ascending(days \ {last}), last)

\* the frame with columns Date and Price for the given days
PriceFrame(days, cycle) ==
    LET order == Ascending(days)
    IN  [i \in DOMAIN order |->
            [Date |-> Midnight(order[i]), Price |-> PriceOn(cycle, order[i])]]

DaySets(on) ==
    {days \in SUBSET {d \in (on - MaxSpan)..(on + MaxSpan) : IsTradingDay(d)} :
        Cardinality(days) <= MaxRows}

InitRebase ==
    /\ pc = "rebase_call"
    /\ announcement_date \in AnnouncementDates
    /\ \E days \in DaySets(announcement_date), cycle \in PriceCycles :
          stock_data = PriceFrame(days, cycle)
    /\ result = None
    /\ metrics = None
    /\ end_date = 0
    /\ start_date = 0
    /\ ticker = None
    /\ market = None
    /\ symbols = <<>>
    /\ idx = 0
    /\ results = <<>>
    /\ hist = <<>>
    /\ rebased_data = <<>>
    /\ prices = <<>>

\* rebased_data = self._rebase_prices(stock_data, announcement_date)
RebasePricesCall ==
    /\ pc = "rebase_call"
    /\ pc' = "rebase_done"
    /\ result' = rebase_prices(stock_data, announcement_date)
    /\ stock_data' = Rebased(stock_data, announcement_date)
    /\ UNCHANGED <<metrics, end_date, ticker, market, symbols, idx, results,
                   hist, announcement_date, start_date, rebased_data, prices>>

NextRebase == RebasePricesCall

SpecRebase == InitRebase /\ [][NextRebase]_vars

(***************************************************************************)
(* StockAnalyzer.get_performance_data.  The Streamlit warnings are         *)
(* presentation and are taken not to fail.                                 *)
(***************************************************************************)

\* ticker.history(start=buffer_start, end=buffer_end): the rows the provider
\* holds from buffer_start up to, not including, buffer_end
history(answer, buffer_start, buffer_end) ==
    SelectSeq(answer.rows,
              LAMBDA row : /\ DateOf(row.Date) >= buffer_start
                           /\ DateOf(row.Date) < buffer_end)

\* what _download_stock_data(symbol, start_date, end_date) returns, with
\* `answer` what the provider answers for the symbol; an exception of the
\* provider ends it with an empty frame
download_stock_data(answer, from, to) ==
    IF answer.status = "raise" THEN <<>>
    ELSE LET data == history(answer, from - buffer_days, to + buffer_days)
         IN  IF data = <<>> THEN <<>>
             ELSE SelectSeq(data,
                            LAMBDA row : /\ DateOf(row.Date) >= from
                                         /\ DateOf(row.Date) <= to)

\* the trading days from..to
TradingDays(from, to) == {d \in from..to : IsTradingDay(d)}

\* what the provider answers for a symbol when the period from..to around
\* the announcement `on` is asked: an error, nothing, every session with two
\* more on either side, the sessions more than max_anchor_diff days from the
\* announcement, the sessions except the three days around the
\* announcement, sessions before the period only, and every session with
\* unusable prices
PerfAnswers(on, from, to) ==
    {[status |-> "raise", rows |-> <<>>],
     [status |-> "ok", rows |-> <<>>],
     [status |-> "ok",
      rows |-> PriceFrame(TradingDays(from - 2, to + 2), <<8, 10, 20>>)],
     [status |-> "ok",
      rows |-> PriceFrame({d \in TradingDays(from - 2, to + 2) :
                              Abs(d - on) > max_anchor_diff}, <<20, 8, 10>>)],
     [status |-> "ok",
      rows |-> PriceFrame({d \in TradingDays(from - 2, to + 2) :
                              Abs(d - on) > 1}, <<10, 20, 8>>)],
     [status |-> "ok",
      rows |-> PriceFrame(TradingDays(from - buffer_days, from - 1),
                          <<10, 10, 10>>)],
     [status |-> "ok",
      rows |-> PriceFrame(TradingDays(from - 2, to + 2), <<0, 10, -10>>)]}

\* the periods asked for: around the announcement, and after it
PerfPeriods(on) ==
    {[start |-> on - MaxSpan, end |-> on + MaxSpan],
     [start |-> on + 1, end |-> on + MaxSpan]}

InitPerf ==
    /\ pc = "perf_loop"
    /\ announcement_date \in {ScanWeek + 2, ScanWeek + 5}
    /\ \E asked \in PerfPeriods(announcement_date) :
          /\ start_date = asked.start
          /\ end_date = asked.end
    /\ market \in [SymbolNames ->
                      PerfAnswers(announcement_date, start_date, end_date)]
    /\ symbols \in SymbolLists
    /\ idx = 0
    /\ results = <<>>
    /\ result = None
    /\ ticker = None
    /\ metrics = None
    /\ hist = <<>>
    /\ stock_data = <<>>
    /\ rebased_data = <<>>
    /\ prices = <<>>

\* Gather that keeps the latest frame only
Gather_Latest(all_data, frame, symbol) ==
    IF frame = <<>> THEN all_data
    ELSE <<SetColumn(frame, "Symbol", [i \in DOMAIN frame |-> symbol])>>

\* rebased_data['Symbol'] = symbol; all_data.append(rebased_data), skipped
\* by `continue` when rebased_data is empty
Gather(all_data, frame, symbol) ==
    IF frame = <<>> THEN all_data
    ELSE Append(all_data,
                SetColumn(frame, "Symbol", [i \in DOMAIN frame |-> symbol]))

\* one pass of `for symbol in symbols` in get_performance_data
ProcessSymbol ==
    /\ pc = "perf_loop"
    /\ idx < Len(symbols)
    /\ LET symbol == symbols[idx + 1]
           downloaded == download_stock_data(market[symbol], start_date,
                                             end_date)
       IN  /\ ticker' = market[symbol]
           /\ stock_data' = Rebased(downloaded, announcement_date)
           /\ rebased_data' = rebase_prices(downloaded, announcement_date)
           /\ results' = Gather(results, rebased_data', symbol)
    /\ idx' = idx + 1
    /\ UNCHANGED <<pc, metrics, result, end_date, market, symbols, hist,
                   announcement_date, start_date, prices>>

\* pd.concat(all_data, ignore_index=True)
RECURSIVE concat(_)
concat(all_data) ==
    IF all_data = <<>> THEN <<>>
    ELSE concat(SubSeq(all_data, 1, Len(all_data) - 1))
         \o all_data[Len(all_data)]

\* the end of get_performance_data: the frames in one table, or an empty one
ReturnPerformance ==
    /\ pc = "perf_loop"
    /\ idx = Len(symbols)
    /\ pc' = "perf_returned"
    /\ result' = IF results # <<>> THEN concat(results) ELSE <<>>
    /\ UNCHANGED <<metrics, end_date, ticker, market, symbols, idx, results,
                   hist, announcement_date, start_date, stock_data,
                   rebased_data, prices>>

NextPerf == ProcessSymbol \/ ReturnPerformance

SpecPerf == InitPerf /\ [][NextPerf]_vars

(***************************************************************************)
(* Russell1000Analyzer.get_sp500_candidates.  `symbols` is the list the    *)
(* loop runs over: the scraped constituents that are not in the S&P 500,   *)
(* cut to max_companies.  What the provider answers for a symbol is a      *)
(* record: status (ticker.info raises or not), info (the dict, a function  *)
(* over the keys it has) and volume (the Volume column of the one-year     *)
(* history).  Ratios of info are carried in hundredths, so that ratio*100  *)
(* is the same number read as a percentage.                                *)
(***************************************************************************)

\* info.get(key, 0) * 100 if info.get(key) else 0
Percent(info, key) ==
    IF key \in DOMAIN info /\ info[key] # 0 THEN info[key] ELSE 0

\* hist['Volume'].tail(180).mean()
TailMean(volume, n) ==
    LET from == Max(1, Len(volume) - n + 1)
    IN  SumClose(volume, from, Len(volume)) \div (Len(volume) - from + 1)

\* get_financial_metrics with 100 for a debtToEquity the provider lacks
get_financial_metrics_Debt100(answer) ==
    IF answer.status = "raise" THEN None
    ELSE IF answer.info = <<>> \/ answer.volume = <<>> THEN None
    ELSE [market_cap |-> Get(answer.info, "marketCap", 0),
          revenue_growth |-> Percent(answer.info, "revenueGrowth"),
          profit_margin |-> Percent(answer.info, "profitMargins"),
          roe |-> Percent(answer.info, "returnOnEquity"),
          debt_to_equity |-> Get(answer.info, "debtToEquity", 100),
          free_cash_flow |-> Get(answer.info, "freeCashflow", 0),
          avg_volume |-> TailMean(answer.volume, 180),
          pe_ratio |-> Get(answer.info, "trailingPE", 0),
          forward_pe |-> Get(answer.info, "forwardPE", 0),
          price_to_book |-> Get(answer.info, "priceToBook", 0),
          enterprise_value |-> Get(answer.info, "enterpriseValue", 0),
          earnings_growth |-> Percent(answer.info, "earningsGrowth"),
          shares_outstanding |-> Get(answer.info, "sharesOutstanding", 0),
          float_shares |-> Get(answer.info, "floatShares", 0),
          country |-> Get(answer.info, "country", "")]

\* what _get_financial_metrics(symbol) returns: the metrics, or None when
\* the provider raises, has no info or has no history
get_financial_metrics(answer) ==
    IF answer.status = "raise" THEN None
    ELSE IF answer.info = <<>> \/ answer.volume = <<>> THEN None
    ELSE [market_cap |-> Get(answer.info, "marketCap", 0),
          revenue_growth |-> Percent(answer.info, "revenueGrowth"),
          profit_margin |-> Percent(answer.info, "profitMargins"),
          roe |-> Percent(answer.info, "returnOnEquity"),
          debt_to_equity |-> Get(answer.info, "debtToEquity", 0),
          free_cash_flow |-> Get(answer.info, "freeCashflow", 0),
          avg_volume |-> TailMean(answer.volume, 180),
          pe_ratio |-> Get(answer.info, "trailingPE", 0),
          forward_pe |-> Get(answer.info, "forwardPE", 0),
          price_to_book |-> Get(answer.info, "priceToBook", 0),
          enterprise_value |-> Get(answer.info, "enterpriseValue", 0),
          earnings_growth |-> Percent(answer.info, "earningsGrowth"),
          shares_outstanding |-> Get(answer.info, "sharesOutstanding", 0),
          float_shares |-> Get(answer.info, "floatShares", 0),
          country |-> Get(answer.info, "country", "")]

\* the dict `candidate`; Company and GICS_Sector, copied from the scraped
\* row of the symbol, are left out.  Market_Cap_B and Free_Cash_Flow_B keep
\* the unit of the metrics they are divided from, Average_Volume_M too
candidate(symbol, financial_metrics) ==
    LET scored == calculate_inclusion_score(financial_metrics)
    IN  [Symbol |-> symbol,
         Market_Cap_B |-> Get(financial_metrics, "market_cap", 0),
         Revenue_Growth_TTM |-> Get(financial_metrics, "revenue_growth", 0),
         Profit_Margin |-> Get(financial_metrics, "profit_margin", 0),
         ROE |-> Get(financial_metrics, "roe", 0),
         Debt_to_Equity |-> Get(financial_metrics, "debt_to_equity", 0),
         Free_Cash_Flow_B |-> Get(financial_metrics, "free_cash_flow", 0),
         Average_Volume_M |-> Get(financial_metrics, "avg_volume", 0),
         Inclusion_Score |-> scored.score,
         criteria_met |-> scored.criteria_met,
         Score_Components |-> score_breakdown(financial_metrics)]

\* a company that passes every hard check, with the given debtToEquity and
\* freeCashflow (each a set: empty when info lacks the key)
Fundamentals(debtToEquity, freeCashflow, marketCap, profitMargins) ==
    Snapshot([country |-> {"United States"}, marketCap |-> {marketCap},
              floatShares |-> {50}, sharesOutstanding |-> {100},
              profitMargins |-> {profitMargins}, returnOnEquity |-> {6},
              revenueGrowth |-> {}, earningsGrowth |-> {0},
              debtToEquity |-> debtToEquity, freeCashflow |-> freeCashflow])

\* what the provider answers to get_sp500_candidates
CandidateAnswers ==
    {[status |-> "raise", info |-> <<>>, volume |-> <<>>],
     [status |-> "ok", info |-> <<>>, volume |-> <<12500>>],
     [status |-> "ok", info |-> Fundamentals({25}, {1}, 2600, 6),
      volume |-> <<>>],
     [status |-> "ok", info |-> Fundamentals({}, {1}, 2600, 6),
      volume |-> <<6250, 18750>>],
     [status |-> "ok", info |-> Fundamentals({}, {}, 2270, 0),
      volume |-> <<12500>>],
     [status |-> "ok", info |-> Fundamentals({-20}, {0}, 2600, 6),
      volume |-> <<12500>>],
     [status |-> "ok", info |-> Fundamentals({0}, {-1}, 2600, 30),
      volume |-> <<12500>>],
     [status |-> "ok", info |-> Fundamentals({25}, {1}, 2270, 6),
      volume |-> <<6250>>],
     [status |-> "ok", info |-> Fundamentals({25}, {0}, 2600, 6),
      volume |-> <<12500, 12500, 12500>>],
     [status |-> "ok", info |-> Fundamentals({80}, {1}, 5000, 30),
      volume |-> <<12500>>],
     [status |-> "ok", info |-> Fundamentals({50}, {}, 2600, 6),
      volume |-> <<12500>>]}

InitCandidates ==
    /\ pc = "candidates_loop"
    /\ market \in [SymbolNames -> CandidateAnswers]
    /\ symbols \in SymbolLists
    /\ idx = 0
    /\ results = <<>>
    /\ result = None
    /\ ticker = None
    /\ metrics = None
    /\ end_date = 0
    /\ hist = <<>>
    /\ announcement_date = 0
    /\ start_date = 0
    /\ stock_data = <<>>
    /\ rebased_data = <<>>
    /\ prices = <<>>

\* one pass of `for symbol in symbols` in get_sp500_candidates; metrics is
\* the dict financial_metrics as the pass leaves it
AnalyzeCandidate ==
    /\ pc = "candidates_loop"
    /\ idx < Len(symbols)
    /\ LET symbol == symbols[idx + 1]
           financial_metrics == get_financial_metrics(market[symbol])
       IN  /\ ticker' = market[symbol]
           /\ IF financial_metrics # None
              THEN /\ metrics' = Put(financial_metrics, "score_breakdown",
                                     score_breakdown(financial_metrics))
                   /\ results' = Append(results,
                                        candidate(symbol, financial_metrics))
              ELSE /\ metrics' = None
                   /\ UNCHANGED results
    /\ idx' = idx + 1
    /\ UNCHANGED <<pc, result, end_date, market, symbols, hist,
                   announcement_date, start_date, stock_data, rebased_data,
                   prices>>

\* sort_values that leaves the rows in the order they were gathered
SortValuesByScore_Unsorted(rows) == {rows}

\* the orders candidates_df.sort_values('Inclusion_Score', ascending=False)
\* can leave the rows in: the score never increases; rows of equal score in
\* any order
SortValuesByScore(rows) ==
    {t \in [1..Len(rows) -> {rows[i] : i \in 1..Len(rows)}] :
        /\ \A i \in 1..Len(rows) : \E j \in 1..Len(rows) : t[j] = rows[i]
        /\ \A i, j \in 1..Len(rows) :
              i < j => t[i].Inclusion_Score >= t[j].Inclusion_Score}

\* the end of get_sp500_candidates: the sorted table (empty when no symbol
\* gave a candidate)
ReturnCandidates ==
    /\ pc = "candidates_loop"
    /\ idx = Len(symbols)
    /\ pc' = "candidates_returned"
    /\ result' \in (IF results # <<>> THEN SortValuesByScore(results)
                    ELSE {<<>>})
    /\ UNCHANGED <<metrics, end_date, ticker, market, symbols, idx, results,
                   hist, announcement_date, start_date, stock_data,
                   rebased_data, prices>>

NextCandidates == AnalyzeCandidate \/ ReturnCandidates

SpecCandidates == InitCandidates /\ [][NextCandidates]_vars

(***************************************************************************)
(* The two batch runs that end in a sorted table, side by side: a run is   *)
(* one of analyze_stocks or one of get_sp500_candidates.                   *)
(***************************************************************************)
InitOutputs == InitBatch \/ InitCandidates

NextOutputs == NextBatch \/ NextCandidates

SpecOutputs == InitOutputs /\ [][NextOutputs]_vars

(***************************************************************************)
(* Properties of _calculate_inclusion_score                                *)
(***************************************************************************)
Scored == pc = "score_done"

\* the fields of the snapshot as the scorer reads them
InCountry == Get(metrics, "country", "")
InMarketCap == Get(metrics, "market_cap", 0)
InMonthlyVolume == Get(metrics, "avg_volume", 0) * 20
InFloatShares == Get(metrics, "float_shares", 0)
InSharesOutstanding == Get(metrics, "shares_outstanding", 0)

\* the points the call recorded for criterion k
Awarded(k) == metrics["score_breakdown"][k]

\* C1: for every snapshot, negative and zero values included, the returned
\* score lies between 0 and 100.
C1_ScoreInRange ==
    Scored => result.score >= 0 /\ result.score <= Points(100)

\* a snapshot of negative values that scores 0
C1_Witness ==
    /\ Scored
    /\ InMarketCap < 0 /\ InMonthlyVolume < 0 /\ InFloatShares < 0
    /\ InSharesOutstanding < 0
    /\ result.score = 0

\* C2: whenever the country is not "United States" (empty or missing
\* included), criteria_met is false whatever the other fields are.
C2_DomicileIsHard ==
    (Scored /\ InCountry # "United States") => result.criteria_met = FALSE

\* a foreign company whose every other field is ideal
C2_Witness ==
    /\ Scored
    /\ InCountry = "Canada"
    /\ InMarketCap >= min_market_cap
    /\ InMonthlyVolume >= min_monthly_volume
    /\ Awarded("float") = Points(20)
    /\ result.score = Points(90)
    /\ result.criteria_met = FALSE

\* C8: market-cap criterion: at or above min_market_cap the contribution is
\* min(30, 20 + (market_cap - min_market_cap)/1e9), hence exactly 20 at the
\* threshold, never below 20 and never above 30; below the threshold it is 0
\* and criteria_met is false.
C8_MarketCap ==
    Scored =>
        /\ InMarketCap >= min_market_cap =>
              /\ Awarded("market_cap")
                   = Min(Points(30), Points(20) + (InMarketCap - min_market_cap))
              /\ Awarded("market_cap") >= Points(20)
              /\ Awarded("market_cap") <= Points(30)
        /\ InMarketCap = min_market_cap => Awarded("market_cap") = Points(20)
        /\ InMarketCap < min_market_cap =>
              /\ Awarded("market_cap") = 0
              /\ result.criteria_met = FALSE

\* a snapshot exactly at the threshold, awarded 20 points
C8_Witness ==
    /\ Scored
    /\ InMarketCap = min_market_cap
    /\ Awarded("market_cap") = Points(20)

RatioAtLeast(float_shares, shares_outstanding, p) ==
    \/ shares_outstanding > 0 /\ float_shares * 100 >= p * shares_outstanding
    \/ shares_outstanding < 0 /\ float_shares * 100 <= p * shares_outstanding

\* C10 as stated: the contribution is 20 when float_shares /
\* shares_outstanding is at least min_float_percentage, otherwise 0 with
\* criteria_met false; the percentage is taken as 0 when shares_outstanding
\* is 0.
C10_AsStated ==
    /\ pc # "score_raised"
    /\ Scored =>
        LET reaches == /\ InSharesOutstanding # 0
                       /\ RatioAtLeast(InFloatShares, InSharesOutstanding,
                                       min_float_percentage)
        IN  /\ reaches => Awarded("float") = Points(20)
            /\ ~reaches =>
                  Awarded("float") = 0 /\ result.criteria_met = FALSE

\* C10, amended: the percentage is taken as 0 when shares_outstanding is 0
\* or negative; the contribution is 20 when the percentage is at least
\* min_float_percentage, otherwise 0 with criteria_met false; the call
\* never ends in a division by zero, and a snapshot with
\* shares_outstanding = 0 hard-fails.
C10_Float ==
    /\ pc # "score_raised"
    /\ Scored =>
        LET reaches == /\ InSharesOutstanding > 0
                       /\ RatioAtLeast(InFloatShares, InSharesOutstanding,
                                       min_float_percentage)
        IN  /\ reaches => Awarded("float") = Points(20)
            /\ ~reaches =>
                  Awarded("float") = 0 /\ result.criteria_met = FALSE
            /\ InSharesOutstanding = 0 =>
                  Awarded("float") = 0 /\ result.criteria_met = FALSE

\* a company without shares outstanding, otherwise qualifying, hard-fails
C10_Witness ==
    /\ Scored
    /\ InSharesOutstanding = 0
    /\ InFloatShares > 0
    /\ InCountry = "United States"
    /\ InMarketCap >= min_market_cap
    /\ InMonthlyVolume >= min_monthly_volume
    /\ Awarded("float") = 0
    /\ result.criteria_met = FALSE

\* the sum of the entries of a score breakdown
RECURSIVE SumOfEntries(_, _)
SumOfEntries(breakdown, keys) ==
    IF keys = {} THEN 0
    ELSE LET k == CHOOSE x \in keys : TRUE
         IN  breakdown[k] + SumOfEntries(breakdown, keys \ {k})

\* C17: the score _calculate_inclusion_score returns is the sum of the
\* entries of the score breakdown it produced for the snapshot, capped at
\* 100.
C17_ScoreIsSum ==
    Scored =>
        result.score
          = Min(Points(100),
                SumOfEntries(metrics["score_breakdown"],
                             DOMAIN metrics["score_breakdown"]))

\* a snapshot with a profitability entry and no growth entry: 20 + 9.98 +
\* 20 + 6 + 7.5 points
C17_Witness ==
    /\ Scored
    /\ DOMAIN metrics["score_breakdown"]
         = {"market_cap", "liquidity", "float", "profitability",
            "financial_health"}
    /\ Awarded("market_cap") = Points(20)
    /\ Awarded("liquidity") = Points(10) - 2
    /\ Awarded("float") = Points(20)
    /\ Awarded("profitability") = Points(6)
    /\ Awarded("financial_health") = 750
    /\ result.score = 6348

\* a call of the scorer has returned
ScoreReturns ==
    /\ pc \in {"score_call", "score_done"}
    /\ pc' \in {"score_done", "score_again"}

\* the second call returns what the first returned
SameOutcome == pc = "score_done" => result' = result

\* C21 as stated: after _calculate_inclusion_score returns, the metrics
\* mapping equals what it was before the call, and a second scoring returns
\* the same score and criteria_met.
C21_AsStated == [][ScoreReturns => metrics' = metrics /\ SameOutcome]_vars

\* C21: after _calculate_inclusion_score returns, the metrics mapping has
\* every key it had before other than score_breakdown with the value it had,
\* and in addition the key score_breakdown; a second scoring of the same
\* mapping returns the same score and criteria_met and leaves the same
\* mapping.
C21_PureButForBreakdown ==
    [][ScoreReturns =>
          /\ DOMAIN metrics' = DOMAIN metrics \cup {"score_breakdown"}
          /\ \A k \in DOMAIN metrics \ {"score_breakdown"} :
                metrics'[k] = metrics[k]
          /\ SameOutcome
          /\ pc = "score_done" => metrics' = metrics]_vars

\* a snapshot that earns points has been scored twice
C21_Witness ==
    /\ pc = "score_again"
    /\ result.score > Points(50)
    /\ result.criteria_met
    /\ "score_breakdown" \in DOMAIN metrics
    /\ "profit_margin" \in DOMAIN metrics

\* the two snapshots of a step agree on the hard fields
AgreeOnHard ==
    \A k \in HardKeys :
        /\ k \in DOMAIN metrics <=> k \in DOMAIN metrics'
        /\ k \in DOMAIN metrics => metrics'[k] = metrics[k]

\* the points the call added to the score for criterion k
Contribution(k) == Get(metrics["score_breakdown"], k, 0)

\* the soft fields as the scorer reads them
InProfitMargin == Get(metrics, "profit_margin", 0)
InRoe == Get(metrics, "roe", 0)
InRevenueGrowth == Get(metrics, "revenue_growth", 0)
InEarningsGrowth == Get(metrics, "earnings_growth", 0)

\* profitability and growth contribute as C22 says
SoftContributions ==
    /\ Contribution("profitability")
         = IF InProfitMargin > 0 /\ InRoe > 0
           THEN Min(Points(10), ((InProfitMargin + InRoe) * Points(1)) \div 2)
           ELSE 0
    /\ Contribution("growth")
         = IF InRevenueGrowth > 0 \/ InEarningsGrowth > 0
           THEN Min(Points(10),
                    (Max(InRevenueGrowth, InEarningsGrowth) * Points(1))
                       \div 2)
           ELSE 0
    /\ result.score
         = Min(Points(100),
               Contribution("market_cap") + Contribution("liquidity")
               + Contribution("float") + Contribution("profitability")
               + Contribution("growth") + Contribution("financial_health"))

\* C22: two snapshots that agree on country, market_cap, avg_volume,
\* float_shares and shares_outstanding get the same criteria_met whatever
\* their soft fields; profitability contributes min(10, (profit_margin +
\* roe)/2) only when both are positive, growth contributes min(10,
\* max(revenue_growth, earnings_growth)/2) only when at least one is
\* positive, and otherwise each contributes 0.
C22_SoftNeverHard ==
    [][/\ pc' \in {"score_done", "variant_done"} => SoftContributions'
       /\ (pc' = "variant_done" /\ AgreeOnHard) =>
             result'.criteria_met = result.criteria_met]_vars

\* the second snapshot meets the hard criteria; its profit margin is
\* positive and its ROE is not, neither growth figure is positive: neither
\* criterion contributes, and financial health gives 5 points
C22_Witness ==
    /\ pc = "variant_done"
    /\ result.criteria_met
    /\ Contribution("profitability") = 0
    /\ Contribution("growth") = 0
    /\ Contribution("financial_health") = Points(5)
    /\ InProfitMargin = 30 /\ InRoe = 0
    /\ InRevenueGrowth = -5 /\ InEarningsGrowth = 0

Criteria ==
    {"market_cap", "liquidity", "float", "profitability", "growth",
     "financial_health"}

\* C25: for every snapshot the score breakdown has an entry for each of the
\* six criteria, and the entry of a criterion that earned no points is 0.
C25_AsStated ==
    Scored =>
        /\ DOMAIN metrics["score_breakdown"] = Criteria
        /\ ~(InProfitMargin > 0 /\ InRoe > 0) => Awarded("profitability") = 0
        /\ ~(InRevenueGrowth > 0 \/ InEarningsGrowth > 0) =>
              Awarded("growth") = 0

\* the four hard checks, the float percentage being taken as 0 when
\* shares_outstanding is not positive
HardChecksPass ==
    /\ InCountry = "United States"
    /\ InMarketCap >= min_market_cap
    /\ InMonthlyVolume >= min_monthly_volume
    /\ InSharesOutstanding > 0
    /\ RatioAtLeast(InFloatShares, InSharesOutstanding, min_float_percentage)

C27_AtMostNinety ==
    Scored =>
        /\ SumOfEntries(metrics["score_breakdown"],
                        DOMAIN metrics["score_breakdown"]) <= Points(90)
        /\ result.score
             = SumOfEntries(metrics["score_breakdown"],
                            DOMAIN metrics["score_breakdown"])
        /\ result.score <= Points(90)

\* a snapshot at the cap of every criterion: 30 + 10 + 20 + 10 + 10 + 10
C27_Witness ==
    /\ Scored
    /\ result.score = Points(90)
    /\ Awarded("market_cap") = Points(30)
    /\ Awarded("profitability") = Points(10)
    /\ Awarded("growth") = Points(10)
    /\ Awarded("financial_health") = Points(10)

(***************************************************************************)
(* Properties of _check_cross                                              *)
(***************************************************************************)
Checked == pc = "check_done"

\* the short average is above the long one on row k of the frame
Above(k) == hist[k].MA50 > hist[k].MA200

\* row k is dated inside the trailing window, now - 7 days through now
InWindow(k) ==
    /\ Midnight(hist[k].Date) >= end_date - timedelta(7)
    /\ Midnight(hist[k].Date) <= end_date

\* the short average is not above the long one on the row before k and is
\* above it on k
GoldenAt(k) == k \in 2..Len(hist) /\ ~Above(k - 1) /\ Above(k)

\* the short average is above the long one on the row before k and is not
\* above it on k
DeathAt(k) == k \in 2..Len(hist) /\ Above(k - 1) /\ ~Above(k)

\* a golden cross on row k, inside the window, after which the signal does
\* not change
LastingGoldenAt(k) ==
    /\ GoldenAt(k)
    /\ InWindow(k)
    /\ \A j \in (k + 1)..Len(hist) : Above(j)

\* the call returned an event of the given type dated on row k
Reports(type, k) ==
    /\ result # None
    /\ result.Cross_Type = type
    /\ result.Cross_Date = hist[k].Date

C5_NoFlipNoEvent ==
    (Checked /\ \A k \in 2..Len(hist) :
                   InWindow(k) => (Above(k) <=> Above(k - 1)))
        => result = None

\* a golden cross 10 days ago, none since: no event
C5_Witness ==
    /\ Checked
    /\ Len(hist) >= 10
    /\ ticker.info = "ok"
    /\ \E k \in DOMAIN hist :
          GoldenAt(k) /\ hist[k].Date = DateOf(end_date) - 10
    /\ \A k \in 2..Len(hist) : InWindow(k) => (Above(k) <=> Above(k - 1))
    /\ result = None

\* number of dates of the answered series on which both averages are defined
DatesWithBothAverages ==
    Cardinality({i \in 1..ticker.n : i >= short_ma /\ i >= long_ma})

\* C6: an empty series, one of fewer than 200 points, or one that leaves
\* fewer than 10 dates with both averages defined, makes _check_cross return
\* None: the call ends normally and reports no cross.
C6_InsufficientData ==
    (pc # "check_call" /\ ticker.status = "ok"
     /\ (ticker.n = 0 \/ ticker.n < long_ma \/ DatesWithBothAverages < 10))
        => (Checked /\ result = None)

\* nine dates with both averages, a golden cross on the last one, inside the
\* window: no event
C6_Witness ==
    /\ Checked
    /\ ticker.info = "ok"
    /\ DatesWithBothAverages = 9
    /\ GoldenAt(Len(hist))
    /\ InWindow(Len(hist))
    /\ result = None

\* the rows of the window with a golden cross, with a death cross
GoldenInWindow == {k \in DOMAIN hist : GoldenAt(k) /\ InWindow(k)}
DeathInWindow == {k \in DOMAIN hist : DeathAt(k) /\ InWindow(k)}

\* the latest of a set of rows
Latest(rows) == CHOOSE k \in rows : \A j \in rows : j <= k

Returned == Checked /\ result # None

\* the latest row of the frame, and the row of the reported cross
LatestRow == Len(hist)
CrossRow == CHOOSE k \in DOMAIN hist : hist[k].Date = result.Cross_Date

\* the RSI of the closes at the latest date
LatestRsi == calculate_rsi(CloseOf(hist))

\* a float that is a number
IsNumber(v) == v # None /\ v # NaN

\* field, in hundredths, is num/den rounded to two decimals
Rounded(field, num, den) == 2 * Abs((field * den) - (num * 100)) <= den

C28_AsStated ==
    Returned =>
        /\ result.Cross_Type = "Golden Cross" => Above(LatestRow)
        /\ result.Cross_Type = "Death Cross" => ~Above(LatestRow)

\* C28: whenever _check_cross returns a Death Cross the latest MA50 is not
\* above the latest MA200; whenever it returns a Golden Cross and no death
\* cross lies after the reported cross date, the latest MA50 is above the
\* latest MA200.
C28_TypeAgrees ==
    Returned =>
        /\ result.Cross_Type = "Death Cross" => ~Above(LatestRow)
        /\ (/\ result.Cross_Type = "Golden Cross"
            /\ \A j \in (CrossRow + 1)..LatestRow : ~DeathAt(j))
              => Above(LatestRow)

\* a death cross followed by a golden cross, two sessions before the
\* latest: a Golden Cross is returned and the latest MA50 is above
C28_Witness ==
    /\ Returned
    /\ result.Cross_Type = "Golden Cross"
    /\ CrossRow = LatestRow - 2
    /\ DeathAt(CrossRow - 1)
    /\ InWindow(CrossRow - 1)
    /\ Above(LatestRow)

\* C29: the RSI field of a returned event is null only when the RSI is
\* unavailable: whenever _calculate_rsi yields a number, exactly 0
\* included, the event carries that number rounded to two decimals.
C29_AsStated ==
    (Returned /\ IsNumber(LatestRsi)) =>
        /\ IsNumber(result.RSI)
        /\ Rounded(result.RSI.num, LatestRsi.num, LatestRsi.den)

(***************************************************************************)
(* Properties of analyze_stocks                                            *)
(***************************************************************************)
\* the symbol's own evaluation finds a cross
FindsCross(symbol) == check_cross(symbol, market[symbol], end_date) # None

\* the events of the symbols l[1..n] that cross, in the order of l
RECURSIVE EventsOf(_, _)
EventsOf(l, n) ==
    IF n = 0 THEN <<>>
    ELSE IF FindsCross(l[n])
         THEN Append(EventsOf(l, n - 1),
                     check_cross(l[n], market[l[n]], end_date))
         ELSE EventsOf(l, n - 1)

\* C3: no outcome of a symbol's evaluation (provider error, computation
\* error, insufficient data) aborts the batch: the symbols are evaluated
\* once each in input order, and the returned table holds exactly one row
\* for each symbol whose own evaluation found a cross and none for any
\* other symbol.
C3_BatchIsolation ==
    /\ pc \in {"loop", "returned"} =>
          /\ idx \in 0..Len(symbols)
          /\ results = EventsOf(symbols, idx)
    /\ pc = "returned" =>
          /\ idx = Len(symbols)
          /\ \A s \in SymbolNames :
                Cardinality({k \in DOMAIN result : result[k].Symbol = s})
                  = IF (\E i \in DOMAIN symbols : symbols[i] = s) /\ FindsCross(s)
                    THEN 1 ELSE 0
          /\ \A k \in DOMAIN result :
                result[k] = check_cross(result[k].Symbol,
                                       market[result[k].Symbol], end_date)

\* [AAA, BBB]: AAA crossed 2 days ago, BBB has 90 points; one row, for AAA
C3_Witness ==
    /\ pc = "returned"
    /\ symbols = <<"AAA", "BBB">>
    /\ market["BBB"].status = "ok" /\ market["BBB"].n = 90
    /\ Len(result) = 1
    /\ result[1].Symbol = "AAA"
    /\ result[1].Cross_Type = "Golden Cross"
    /\ result[1].Cross_Date = DateOf(end_date) - 2

(***************************************************************************)
(* Properties of _rebase_prices                                            *)
(***************************************************************************)
RebaseDone == pc = "rebase_done"

\* the frame is a price series: one point per date, oldest first, every
\* price positive
IsPriceSeries(frame) ==
    /\ \A i \in DOMAIN frame : frame[i].Price > 0
    /\ \A i, j \in DOMAIN frame : i < j => frame[i].Date < frame[j].Date

\* the rows of a frame dated on the given day
RowsDated(frame, day) == {k \in DOMAIN frame : DateOf(frame[k].Date) = day}

\* the rebased price 1.0
One == Quotient(1, 1)

\* C11: when the price series has a point dated on the announcement date,
\* _rebase_prices returns a table that holds the point of the announcement
\* date, with Rebased_Price exactly 1.0 and Days_From_Announcement exactly 0.
C11_ExactAnchor ==
    (RebaseDone /\ IsPriceSeries(stock_data)
     /\ RowsDated(stock_data, announcement_date) # {})
        => /\ RowsDated(result, announcement_date) # {}
           /\ \A k \in RowsDated(result, announcement_date) :
                 /\ result[k].Rebased_Price = One
                 /\ result[k].Days_From_Announcement = 0

\* a series of four points around a Wednesday announcement: the point of
\* the Wednesday is rebased to 1.0 with offset 0, the others are not
C11_Witness ==
    /\ RebaseDone
    /\ IsPriceSeries(stock_data)
    /\ Len(stock_data) = 4
    /\ announcement_date = ScanWeek + 2
    /\ \E k \in RowsDated(result, announcement_date) :
          /\ result[k].Rebased_Price = One
          /\ result[k].Days_From_Announcement = 0
          /\ k > 1 /\ k < Len(result)
          /\ result[k - 1].Rebased_Price # One
          /\ result[k - 1].Days_From_Announcement < 0
          /\ result[k + 1].Rebased_Price # One
          /\ result[k + 1].Days_From_Announcement > 0

\* the smallest distance in days of a point of the frame from the day
NearestDiff(frame, day) ==
    CHOOSE d \in {Abs(DateOf(frame[i].Date) - day) : i \in DOMAIN frame} :
        \A i \in DOMAIN frame : d <= Abs(DateOf(frame[i].Date) - day)

\* the series has points, none of them dated on the announcement date
NoExactMatch ==
    /\ stock_data # <<>>
    /\ RowsDated(stock_data, announcement_date) = {}

\* the returned table is the series rebased on its point a
RebasedOn(a) ==
    /\ Len(result) = Len(stock_data)
    /\ \A k \in DOMAIN result :
          /\ result[k].Date = stock_data[k].Date
          /\ result[k].Price = stock_data[k].Price
          /\ result[k].Rebased_Price
               = Quotient(stock_data[k].Price, stock_data[a].Price)
          /\ result[k].Days_From_Announcement
               = DateOf(stock_data[k].Date) - DateOf(stock_data[a].Date)
          /\ k < a => result[k].Days_From_Announcement < 0
          /\ k > a => result[k].Days_From_Announcement > 0
    /\ result[a].Rebased_Price = One
    /\ result[a].Days_From_Announcement = 0

\* C23: without an exact match, _rebase_prices takes as anchor a point with
\* the smallest absolute day difference from the announcement date, provided
\* the difference is at most 5; every point of the output has Rebased_Price
\* = Price / anchor price and Days_From_Announcement = its date minus the
\* anchor's own date, so the anchor has 1.0 and 0, the points before it
\* negative offsets and the points after it positive ones.
C23_NearestAnchor ==
    (RebaseDone /\ IsPriceSeries(stock_data) /\ NoExactMatch
     /\ NearestDiff(stock_data, announcement_date) <= max_anchor_diff)
        => \E a \in DOMAIN stock_data :
              /\ Abs(DateOf(stock_data[a].Date) - announcement_date)
                   = NearestDiff(stock_data, announcement_date)
              /\ RebasedOn(a)

\* a Saturday announcement; the series has the Thursday and the Friday
\* before it and the Monday after it: the Friday is the anchor
C23_Witness ==
    /\ RebaseDone
    /\ IsPriceSeries(stock_data)
    /\ NoExactMatch
    /\ announcement_date = ScanWeek + 5
    /\ Len(result) >= 3
    /\ \E a \in DOMAIN result :
          /\ a > 1 /\ a < Len(result)
          /\ DateOf(result[a].Date) = ScanWeek + 4
          /\ result[a].Days_From_Announcement = 0
          /\ result[a].Rebased_Price = One
          /\ result[a - 1].Days_From_Announcement = -1
          /\ result[a - 1].Rebased_Price # One
          /\ result[a + 1].Days_From_Announcement = 3

\* rows b and a of the series tie for the nearest point: b lies as many
\* days before the announcement date as a lies after it
TieForNearest(b, a) ==
    /\ announcement_date - DateOf(stock_data[b].Date)
         = NearestDiff(stock_data, announcement_date)
    /\ DateOf(stock_data[a].Date) - announcement_date
         = NearestDiff(stock_data, announcement_date)

\* C30: when the announcement date has no exact match and two points of a
\* date-ascending series are equally near to it and nearest, one k days
\* before and one k days after with k <= 5, _rebase_prices anchors on the
\* earlier of the two.
C30_TieToEarlier ==
    (RebaseDone /\ IsPriceSeries(stock_data) /\ NoExactMatch
     /\ NearestDiff(stock_data, announcement_date) <= max_anchor_diff)
        => \A b, a \in DOMAIN stock_data :
              TieForNearest(b, a) => RebasedOn(b)

\* a Wednesday announcement and a series with the Tuesday and the Thursday
\* but not the Wednesday: the Tuesday is the anchor
C30_Witness ==
    /\ RebaseDone
    /\ IsPriceSeries(stock_data)
    /\ NoExactMatch
    /\ announcement_date = ScanWeek + 2
    /\ \E b \in DOMAIN result :
          /\ b < Len(result)
          /\ TieForNearest(b, b + 1)
          /\ DateOf(result[b].Date) = ScanWeek + 1
          /\ result[b].Days_From_Announcement = 0
          /\ result[b].Rebased_Price = One
          /\ result[b + 1].Days_From_Announcement = 2
          /\ result[b + 1].Rebased_Price # One

(***************************************************************************)
(* Properties of get_performance_data                                      *)
(***************************************************************************)
PerfReturned == pc = "perf_returned"

\* the symbol the loop of get_performance_data has just processed
Processed == pc \in {"perf_loop", "perf_returned"} /\ idx >= 1

\* the frame has points, none of them within max_anchor_diff days of `on`
NoUsableAnchor(frame, on) ==
    /\ frame # <<>>
    /\ \A i \in DOMAIN frame : Abs(DateOf(frame[i].Date) - on) > 5

\* the points the provider holds for symbol s inside the period
PointsInPeriod(s) ==
    IF market[s].status # "ok" THEN <<>>
    ELSE SelectSeq(market[s].rows,
                   LAMBDA row : /\ DateOf(row.Date) >= start_date
                                /\ DateOf(row.Date) <= end_date)

\* the rows of the returned table that carry symbol s
RowsOf(s) == {k \in DOMAIN result : result[k].Symbol = s}

Requested(s) == \E i \in DOMAIN symbols : symbols[i] = s

\* C12: when no point of the series lies within 5 days of the announcement
\* date, _rebase_prices returns an empty table (the call ends normally), and
\* the table get_performance_data returns has no row for that symbol.
C12_NoUsableAnchor ==
    /\ (Processed /\ NoUsableAnchor(stock_data, announcement_date))
          => rebased_data = <<>>
    /\ PerfReturned =>
          \A s \in SymbolNames :
              (Requested(s) /\ NoUsableAnchor(PointsInPeriod(s),
                                              announcement_date))
                  => RowsOf(s) = {}

\* [AAA, BBB]: the nearest point of AAA is 6 days from the announcement,
\* BBB has a point on the announcement date; the table holds rows of BBB only
C12_Witness ==
    /\ PerfReturned
    /\ symbols = <<"AAA", "BBB">>
    /\ NoUsableAnchor(PointsInPeriod("AAA"), announcement_date)
    /\ \E i \in DOMAIN PointsInPeriod("AAA") :
          Abs(DateOf(PointsInPeriod("AAA")[i].Date) - announcement_date) = 6
    /\ RowsOf("AAA") = {}
    /\ RowsOf("BBB") # {}
    /\ \E k \in RowsOf("BBB") : result[k].Days_From_Announcement = 0

\* symbol s is downloaded and rebased successfully: the provider has points
\* in the period and _rebase_prices returns rows for them
RebasedSuccessfully(s) ==
    rebase_prices(PointsInPeriod(s), announcement_date) # <<>>

\* the symbols that have rows in the returned table
SymbolsReturned == {s \in SymbolNames : RowsOf(s) # {}}

\* C18: in get_performance_data a symbol with no price data, with no valid
\* anchor, or whose processing raises is skipped and the loop goes on: every
\* symbol is processed, the returned table has rows for exactly the
\* requested symbols that were downloaded and rebased successfully (one row
\* for each of their points), and the number of distinct symbols returned
\* is the number requested less the number skipped.
C18_SkipAndContinue ==
    /\ pc \in {"perf_loop", "perf_returned"} => idx \in 0..Len(symbols)
    /\ PerfReturned =>
          /\ idx = Len(symbols)
          /\ \A s \in SymbolNames :
                Cardinality(RowsOf(s))
                  = IF Requested(s) /\ RebasedSuccessfully(s)
                    THEN Len(PointsInPeriod(s)) ELSE 0
          /\ Cardinality(SymbolsReturned)
               = Len(symbols)
                 - Cardinality({i \in DOMAIN symbols :
                                   ~RebasedSuccessfully(symbols[i])})

\* [AAA, BBB]: AAA rebases, the provider raises for BBB; the table holds the
\* rows of AAA only, one symbol of the two requested
C18_Witness ==
    /\ PerfReturned
    /\ symbols = <<"AAA", "BBB">>
    /\ market["BBB"].status = "raise"
    /\ RowsOf("AAA") # {}
    /\ RowsOf("BBB") = {}
    /\ Cardinality(SymbolsReturned) = 1
    /\ Len(result) = Len(PointsInPeriod("AAA"))

(***************************************************************************)
(* Properties of the batch outputs                                         *)
(***************************************************************************)
\* C13: the rows analyze_stocks returns are in non-increasing order of
\* cross date and the rows get_sp500_candidates returns are in
\* non-increasing order of inclusion score, whatever the order of the
\* input symbols.
C13_OutputsOrdered ==
    /\ pc = "returned" =>
          \A i, j \in DOMAIN result :
              i < j => result[i].Cross_Date >= result[j].Cross_Date
    /\ pc = "candidates_returned" =>
          \A i, j \in DOMAIN result :
              i < j => result[i].Inclusion_Score >= result[j].Inclusion_Score

\* [AAA, BBB] with BBB the higher score: BBB is returned first
C13_Witness ==
    /\ pc = "candidates_returned"
    /\ symbols = <<"AAA", "BBB">>
    /\ Len(results) = 2
    /\ results[1].Inclusion_Score < results[2].Inclusion_Score
    /\ result[1].Symbol = "BBB"
    /\ result[2].Symbol = "AAA"
    /\ result[1].Inclusion_Score > result[2].Inclusion_Score

(***************************************************************************)
(* Properties of _calculate_rsi                                            *)
(***************************************************************************)
RsiDone == pc = "rsi_done"

\* the call returned no value: None, or the float NaN
Unavailable(r) == r = None \/ r = NaN

\* the steps of the last `period` rows of the series (the first row of a
\* series has no step)
LastSteps == {i \in 2..Len(prices) : i > Len(prices) - period}

\* no step of the last period falls: the average loss is zero
NoFall == \A i \in LastSteps : prices[i] >= prices[i - 1]

\* no step of the last period rises: the average gain is zero
NoRise == \A i \in LastSteps : prices[i] <= prices[i - 1]

\* the returned number is v
Returns(v) == ~Unavailable(result) /\ result.num = v * result.den

\* C14 as stated: _calculate_rsi returns no value whenever the series has
\* fewer than period + 1 (15) price points or the average loss over the last
\* period is zero.
C14_AsStated ==
    (RsiDone /\ (Len(prices) < period + 1 \/ NoFall)) => Unavailable(result)

\* C14, amended: _calculate_rsi returns no value whenever the series has
\* fewer than period (14) price points or both the average gain and the
\* average loss over the last period are zero; when the average loss is zero
\* and the average gain is not it returns 100; in every other case it
\* returns a number.  The call never raises.
C14_RsiUnavailable ==
    /\ pc \in {"rsi_call", "rsi_done"}
    /\ RsiDone =>
          /\ (Len(prices) < period \/ (NoFall /\ NoRise))
                => Unavailable(result)
          /\ (Len(prices) >= period /\ NoFall /\ ~NoRise) => Returns(100)
          /\ (Len(prices) >= period /\ ~NoFall) => ~Unavailable(result)

\* 13 prices that rise and fall: no value
C14_Witness ==
    /\ RsiDone
    /\ Len(prices) = period - 1
    /\ ~NoFall /\ ~NoRise
    /\ result = NaN

\* every step of the last 14 rises, and there are 14 of them
RisesThroughout ==
    /\ Len(prices) >= period + 1
    /\ \A i \in LastSteps : prices[i] > prices[i - 1]

\* every step of the last 14 falls, and there are 14 of them
FallsThroughout ==
    /\ Len(prices) >= period + 1
    /\ \A i \in LastSteps : prices[i] < prices[i - 1]

\* C15: a series that rises on every one of its last 14 steps gets RSI 100,
\* one that falls on every one of them gets RSI 0, and every number
\* _calculate_rsi returns lies in [0, 100].
C15_RsiRange ==
    RsiDone =>
        /\ RisesThroughout => Returns(100)
        /\ FallsThroughout => Returns(0)
        /\ ~Unavailable(result) =>
              /\ result.den > 0
              /\ 0 <= result.num
              /\ result.num <= 100 * result.den

\* 17 prices: two rises, then 14 falls; RSI 0
C15_Witness ==
    /\ RsiDone
    /\ Len(prices) = 17
    /\ prices[3] > prices[1]
    /\ FallsThroughout
    /\ Returns(0)

(***************************************************************************)
(* Properties of get_sp500_candidates                                      *)
(***************************************************************************)
\* the provider's info for the symbol of a gathered candidate
InfoOf(row) == market[row.Symbol].info

\* the points of the debt component the claim gives a snapshot
DebtPoints(info) ==
    IF "debtToEquity" \notin DOMAIN info THEN Points(5)
    ELSE IF info["debtToEquity"] <= 0 THEN Points(5)
    ELSE Max(0, Points(5) - 10 * info["debtToEquity"])

\* the points of the free-cash-flow component the claim gives a snapshot
CashPoints(info) ==
    IF "freeCashflow" \in DOMAIN info /\ info["freeCashflow"] > 0
    THEN Points(5) ELSE 0

C19_AsStated ==
    (pc = "abandoned" /\ idx >= 1 /\ results # <<>>) =>
        /\ result # None
        /\ \A k \in DOMAIN results :
              \E j \in DOMAIN result : result[j] = results[k]

\* C20: if the provider's call for one symbol stalls and never returns, the
\* batch treats the symbol as skipped and goes on, so analyze_stocks
\* eventually returns a result for every input list: as long as it has not
\* returned, it has a next step to take (a pass of the loop that ends, or
\* the return after the last pass).
C20_AsStated == pc = "returned" \/ ENABLED (PassEnds \/ LoopEnds)

====
